---- MODULE Spec2Model ----
(***************************************************************************)
(* The quiz bot of src/bot.py: one user's session (context.user_data), the *)
(* handlers registered by build_application, and compute_recommendation.   *)
(* Every handler is one atomic action; each external call it makes (chat   *)
(* API, database) may fail, chosen by the set `fails` of failing calls.    *)
(* Spec is the bot with one user, SpecRecommend and SpecCalls are          *)
(* compute_recommendation on its own, SpecUsers is the bot with two users. *)
(* The web layer of src/api/telegram.py: SpecInstance is one instance with *)
(* its lifespan hooks, webhook requests and broadcast, each request a      *)
(* process that yields at its awaits; SpecAdmin is the admin area.         *)
(***************************************************************************)
EXTENDS Integers, Sequences, FiniteSets, TLC

VARIABLES
    user_data,        \* context.user_data of the user: a dict (key -> value)
    last,             \* the update processed last: handler, argument, outcome,
                      \* and the keys the session held when it arrived
    out,              \* the external calls completed while processing it
    leads,            \* lead messages sent to the manager since the last /start
    MANAGER_CHAT_ID,  \* bot.py:29, the environment setting, as characters
    rec,              \* SpecRecommend: an answers list and its recommendation
    calls,            \* SpecCalls: the calls of compute_recommendation made
    sessions,         \* SpecUsers: the user_data dict of every user
    log,              \* SpecUsers: the updates processed so far, in order
    _initialized,     \* telegram.py:21, the module flag
    ptb_app,          \* telegram.py:20, the application and its calls
    WEBHOOK_SECRET,   \* telegram.py:16, the environment setting
    ADMIN_SECRET,     \* telegram.py:17, the environment setting
    lifespan,         \* the server's startup/shutdown protocol
    webhook,          \* the webhook requests: position, header, body, status
    broadcast,        \* the broadcast request: position, cookie, loop state
    users,            \* the users table: the telegram_id of each row
    delivered,        \* chat ids the broadcast text was sent to, in order
    admin,            \* the admin request served last
    jar               \* the admin_secret cookie the browser holds

\* the bot (src/bot.py) and the web layer (src/api/telegram.py)
bot_vars == <<user_data, last, out, leads, MANAGER_CHAT_ID, rec, calls,
              sessions, log>>

web_vars == <<_initialized, ptb_app, WEBHOOK_SECRET, ADMIN_SECRET, lifespan,
              webhook, broadcast, users, delivered, admin, jar>>

vars == <<bot_vars, web_vars>>

----------------------------------------------------------------------------
(* Bounds of the model *)

\* handlers append to answers without a limit; the model stops at this length
MaxAnswers == 5
\* SpecRecommend scores answer lists up to this length
MaxScored == 4
\* SpecCalls makes up to this many calls of compute_recommendation
MaxCalls == 3
\* SpecUsers processes up to this many updates
MaxUpdates == 3

----------------------------------------------------------------------------
(* Python dict *)

EmptyDict == [k \in {} |-> 0]

Get(d, k, default) == IF k \in DOMAIN d THEN d[k] ELSE default

Put(d, k, v) == [x \in (DOMAIN d) \cup {k} |-> IF x = k THEN v ELSE d[x]]

\* keys of user_data
UD_ANSWERS == "answers"
UD_RESULT == "result"
UD_AWAITING_CONTACT == "awaiting_contact"
UD_CONTACT_RECEIVED == "contact_received"

\* MODELS, in declaration order
MODELS == <<"CLOUD", "GOCCI", "FLOUS", "JUNGLE">>

\* amap.get(key) of a missing key; choices are the integers 1..4
None == 0

----------------------------------------------------------------------------
(* compute_recommendation *)

\* amap = {key: val for key, val in answers}: a later pair replaces an earlier
\* one with the same key
AnswerMapFirstWins(answers) ==
    [q \in {answers[i][1] : i \in DOMAIN answers} |->
        LET first == CHOOSE i \in DOMAIN answers :
                        /\ answers[i][1] = q
                        /\ \A j \in DOMAIN answers : answers[j][1] = q => j >= i
        IN  answers[first][2]]

AnswerMap(answers) ==
    [q \in {answers[i][1] : i \in DOMAIN answers} |->
        LET lastIdx == CHOOSE i \in DOMAIN answers :
                        /\ answers[i][1] = q
                        /\ \A j \in DOMAIN answers : answers[j][1] = q => j <= i
        IN  answers[lastIdx][2]]

ZeroScore == [m \in {"CLOUD", "GOCCI", "FLOUS", "JUNGLE"} |-> 0]

Add(score, m, n) == [score EXCEPT ![m] = @ + n]

ScoreQ1(score, q1) ==
    IF q1 = 1 THEN Add(Add(score, "CLOUD", 1), "JUNGLE", 1)
    ELSE IF q1 = 2 THEN Add(score, "GOCCI", 1)
    ELSE IF q1 = 3 THEN Add(score, "FLOUS", 2)
    ELSE IF q1 = 4 THEN Add(score, "JUNGLE", 2)
    ELSE score

ScoreQ2(score, q2) ==
    IF q2 = 1 THEN Add(Add(score, "CLOUD", 2), "JUNGLE", 1)
    ELSE IF q2 = 2 THEN Add(Add(score, "GOCCI", 2), "FLOUS", 1)
    ELSE IF q2 = 3 THEN Add(Add(score, "FLOUS", 2), "CLOUD", 1)
    ELSE IF q2 = 4 THEN Add(Add(Add(score, "GOCCI", 1), "JUNGLE", 1), "CLOUD", 1)
    ELSE score

\* ScoreQ3 with a rule that takes a point away, and no rule for option 4
ScoreQ3Penalty(score, q3) ==
    IF q3 = 1 THEN Add(Add(score, "GOCCI", 2), "CLOUD", 1)
    ELSE IF q3 = 2 THEN Add(Add(score, "FLOUS", 2), "CLOUD", -1)
    ELSE IF q3 = 3 THEN Add(Add(score, "CLOUD", 2), "FLOUS", 1)
    ELSE score

ScoreQ3(score, q3) ==
    IF q3 = 1 THEN Add(Add(score, "GOCCI", 2), "CLOUD", 1)
    ELSE IF q3 = 2 THEN Add(score, "FLOUS", 2)
    ELSE IF q3 = 3 THEN Add(Add(score, "CLOUD", 2), "FLOUS", 1)
    ELSE IF q3 = 4 THEN Add(Add(score, "JUNGLE", 2), "CLOUD", 1)
    ELSE score

\* ScoreQ4 with a weight of 1 where the table has 3
ScoreQ4LightCloud(score, q4) ==
    IF q4 = 1 THEN Add(score, "CLOUD", 1)
    ELSE IF q4 = 2 THEN Add(Add(score, "GOCCI", 2), "FLOUS", 1)
    ELSE IF q4 = 3 THEN Add(Add(score, "GOCCI", 2), "CLOUD", 1)
    ELSE IF q4 = 4 THEN Add(Add(score, "FLOUS", 2), "CLOUD", 1)
    ELSE score

ScoreQ4(score, q4) ==
    IF q4 = 1 THEN Add(score, "CLOUD", 3)
    ELSE IF q4 = 2 THEN Add(Add(score, "GOCCI", 2), "FLOUS", 1)
    ELSE IF q4 = 3 THEN Add(Add(score, "GOCCI", 2), "CLOUD", 1)
    ELSE IF q4 = 4 THEN Add(Add(score, "FLOUS", 2), "CLOUD", 1)
    ELSE score

\* ScoreOf with a special case for partial answers: nothing is scored unless
\* all four questions are answered
ScoreOfComplete(amap) ==
    IF DOMAIN amap # {"Q1", "Q2", "Q3", "Q4"} THEN ZeroScore
    ELSE ScoreQ4(ScoreQ3(ScoreQ2(ScoreQ1(ZeroScore,
            amap["Q1"]), amap["Q2"]), amap["Q3"]), amap["Q4"])

\* the score dict after the four if-chains
ScoreOf(amap) ==
    ScoreQ4(ScoreQ3(ScoreQ2(ScoreQ1(ZeroScore,
        Get(amap, "Q1", None)), Get(amap, "Q2", None)),
        Get(amap, "Q3", None)), Get(amap, "Q4", None))

\* PickBest with the tie broken the other way: among equals the item declared
\* last
PickBestLastDeclared(score) ==
    LET order == MODELS
        best == CHOOSE i \in DOMAIN order :
                    \A j \in DOMAIN order :
                        \/ score[order[i]] > score[order[j]]
                        \/ /\ score[order[i]] = score[order[j]]
                           /\ i >= j
    IN  order[best]

\* max(order, key=lambda m: (score[m], -order.index(m)))
PickBest(score) ==
    LET order == MODELS
        best == CHOOSE i \in DOMAIN order :
                    \A j \in DOMAIN order :
                        \/ score[order[i]] > score[order[j]]
                        \/ /\ score[order[i]] = score[order[j]]
                           /\ -i >= -j
    IN  order[best]

compute_recommendation_first_wins(answers) ==
    PickBest(ScoreOf(AnswerMapFirstWins(answers)))

\* compute_recommendation reading the session as well: the answers the
\* session holds are scored after the ones passed in
compute_recommendation_of_session(answers) ==
    PickBest(ScoreOf(AnswerMap(answers \o Get(user_data, UD_ANSWERS, <<>>))))

compute_recommendation(answers) == PickBest(ScoreOf(AnswerMap(answers)))

----------------------------------------------------------------------------
(* External calls *)

\* a call site: <<function, what it carries>>
ANSWER == <<"query.answer", "">>
EDIT(payload) == <<"edit_message_text", payload>>
SEND(payload) == <<"send_message", payload>>
DB(fn) == <<fn, "db">>
LEAD == <<"bot.send_message", "lead">>

\* the outcome of a handler: the dict it leaves, the calls it made in order
\* (failed ones included), and whether an exception left the handler
R(ud, tried, raised) == [ud |-> ud, tried |-> tried, raised |-> raised]

\* the outcome of r followed by n, where n has run on r.ud: n does not run
\* when r raised
Then(r, n) ==
    IF r.raised THEN r ELSE R(n.ud, r.tried \o n.tried, n.raised)

\* the names bound at module level of bot.py (imports left out)
ModuleGlobals ==
    {"BOT_TOKEN", "MANAGER_CHAT_ID", "QUESTION_DELAY_SECONDS",
     "RESULT_DELAY_SECONDS", "URL_CLOUD", "URL_GOCCI", "URL_FLOUS",
     "URL_JUNGLE", "URL_ALL", "UD_ANSWERS", "UD_RESULT",
     "UD_AWAITING_CONTACT", "UD_CONTACT_RECEIVED", "MODELS"}

\* reading a global name: NameError unless the module binds it
NameBound(name) == name \in ModuleGlobals

\* try: edit_message_text(...) except: send_message(...)
EditOrSend(ud, payload, fails) ==
    IF EDIT(payload) \notin fails THEN R(ud, <<EDIT(payload)>>, FALSE)
    ELSE R(ud, <<EDIT(payload), SEND(payload)>>, SEND(payload) \in fails)

\* try: <db calls in order> except: pass -- the calls up to the first failing
\* one
TryDb(fns, fails) ==
    LET made == {i \in DOMAIN fns : \A j \in 1..(i - 1) : DB(fns[j]) \notin fails}
    IN  [i \in 1..Cardinality(made) |-> DB(fns[i])]

\* context.user_data.setdefault(UD_ANSWERS, []).append((q, choice))
AppendAnswer(ud, q, choice) ==
    Put(ud, UD_ANSWERS, Append(Get(ud, UD_ANSWERS, <<>>), <<q, choice>>))

----------------------------------------------------------------------------
(* Handlers *)

\* cmd_start without context.user_data.clear()
cmd_start_without_clear(ud, fails) ==
    IF SEND("greet") \in fails THEN R(ud, <<SEND("greet")>>, TRUE)
    ELSE R(ud, <<SEND("greet")>>
                \o TryDb(<<"upsert_user", "touch_user_active">>, fails),
           FALSE)

cmd_start(ud, fails) ==
    LET ud1 == EmptyDict
    IN  IF SEND("greet") \in fails THEN R(ud1, <<SEND("greet")>>, TRUE)
        ELSE R(ud1, <<SEND("greet")>>
                    \o TryDb(<<"upsert_user", "touch_user_active">>, fails),
               FALSE)

on_start_quiz(ud, fails) ==
    IF ANSWER \in fails THEN R(ud, <<ANSWER>>, TRUE)
    ELSE LET ud1 == Put(ud, UD_ANSWERS, <<>>)
         IN  Then(R(ud1, <<ANSWER>>, FALSE), EditOrSend(ud1, "q1", fails))

handle_q1(ud, choice, fails) ==
    IF ANSWER \in fails THEN R(ud, <<ANSWER>>, TRUE)
    ELSE LET ud1 == AppendAnswer(ud, "Q1", choice)
         IN  Then(R(ud1, <<ANSWER>>, FALSE), EditOrSend(ud1, "q2", fails))

handle_q2(ud, choice, fails) ==
    IF ANSWER \in fails THEN R(ud, <<ANSWER>>, TRUE)
    ELSE LET ud1 == AppendAnswer(ud, "Q2", choice)
         IN  Then(R(ud1, <<ANSWER>>, FALSE), EditOrSend(ud1, "q3", fails))

handle_q3(ud, choice, fails) ==
    IF ANSWER \in fails THEN R(ud, <<ANSWER>>, TRUE)
    ELSE LET ud1 == AppendAnswer(ud, "Q3", choice)
         IN  Then(R(ud1, <<ANSWER>>, FALSE), EditOrSend(ud1, "q4", fails))

send_result(ud, model_key, fails) ==
    R(ud, <<SEND("result")>>, SEND("result") \in fails)

send_promo_code(ud, fails) ==
    IF ~NameBound("MESSAGE_DELAY_SECONDS") THEN R(ud, <<>>, TRUE)
    ELSE R(ud, <<SEND("promo")>>, SEND("promo") \in fails)

send_contact_request(ud, fails) ==
    IF ~NameBound("MESSAGE_DELAY_SECONDS") THEN R(ud, <<>>, TRUE)
    ELSE LET ud1 == Put(Put(ud, UD_AWAITING_CONTACT, TRUE),
                        UD_CONTACT_RECEIVED, FALSE)
         IN  R(ud1, <<SEND("contact_request")>>,
               SEND("contact_request") \in fails)

handle_q4(ud, choice, fails) ==
    IF ANSWER \in fails THEN R(ud, <<ANSWER>>, TRUE)
    ELSE
        LET ud1 == AppendAnswer(ud, "Q4", choice)
            edited == <<EDIT("accepted")>>
            model_key == compute_recommendation(Get(ud1, UD_ANSWERS, <<>>))
            ud2 == Put(ud1, UD_RESULT, model_key)
            saved == TryDb(<<"add_submission", "touch_user_active">>, fails)
            r1 == Then(R(ud2, <<ANSWER>> \o edited \o saved, FALSE),
                       send_result(ud2, model_key, fails))
            r2 == Then(r1, send_promo_code(r1.ud, fails))
            r3 == Then(r2, send_contact_request(r2.ud, fails))
        IN  r3

Digits == <<"0", "1", "2", "3", "4", "5", "6", "7", "8", "9">>

IsDigit(c) == \E d \in DOMAIN Digits : Digits[d] = c

DigitValue(c) == (CHOOSE d \in DOMAIN Digits : Digits[d] = c) - 1

RECURSIVE DecimalValue(_)
DecimalValue(s) ==
    IF s = <<>> THEN 0
    ELSE 10 * DecimalValue(SubSeq(s, 1, Len(s) - 1)) + DigitValue(s[Len(s)])

\* int(s): an optional sign and decimal digits, ValueError otherwise
IntOf(s) ==
    LET body == IF s # <<>> /\ Head(s) \in {"-", "+"} THEN Tail(s) ELSE s
    IN  IF body = <<>> \/ \E i \in DOMAIN body : ~IsDigit(body[i])
        THEN [ok |-> FALSE, value |-> 0]
        ELSE [ok |-> TRUE,
              value |-> IF Head(s) = "-" THEN -DecimalValue(body)
                        ELSE DecimalValue(body)]

\* the calls forward_to_manager makes; every exception is swallowed
forward_to_manager(ud, chat_id, fails) ==
    IF DB("get_user_promo_codes") \in fails THEN <<DB("get_user_promo_codes")>>
    ELSE LET looked == <<DB("get_user_promo_codes")>>
             parsed == IntOf(chat_id)
         IN  IF chat_id = <<>> THEN looked
             ELSE IF ~parsed.ok THEN looked
             ELSE IF parsed.value # 0 THEN looked \o <<LEAD>>
             ELSE looked

\* on_contact without its first check
on_contact_unguarded(ud, chat_id, fails) ==
    LET ud1 == Put(Put(ud, UD_CONTACT_RECEIVED, TRUE),
                   UD_AWAITING_CONTACT, FALSE)
        ack == <<SEND("ack")>>
    IN  R(ud1,
          ack \o forward_to_manager(ud1, chat_id, fails)
              \o TryDb(<<"update_user_phone", "touch_user_active">>, fails),
          FALSE)

\* on_contact without context.user_data[UD_AWAITING_CONTACT] = False
on_contact_keeps_awaiting(ud, chat_id, fails) ==
    IF ~Get(ud, UD_AWAITING_CONTACT, FALSE) THEN R(ud, <<>>, FALSE)
    ELSE
        LET ud1 == Put(ud, UD_CONTACT_RECEIVED, TRUE)
            ack == <<SEND("ack")>>
        IN  R(ud1,
              ack \o forward_to_manager(ud1, chat_id, fails)
                  \o TryDb(<<"update_user_phone", "touch_user_active">>, fails),
              FALSE)

on_contact(ud, chat_id, fails) ==
    IF ~Get(ud, UD_AWAITING_CONTACT, FALSE) THEN R(ud, <<>>, FALSE)
    ELSE
        LET ud1 == Put(Put(ud, UD_CONTACT_RECEIVED, TRUE),
                       UD_AWAITING_CONTACT, FALSE)
            ack == <<SEND("ack")>>
        IN  R(ud1,
              ack \o forward_to_manager(ud1, chat_id, fails)
                  \o TryDb(<<"update_user_phone", "touch_user_active">>, fails),
              FALSE)

\* text.strip(): without the blanks at both ends
RECURSIVE Strip(_)
Strip(text) ==
    IF text = <<>> THEN text
    ELSE IF Head(text) = " " THEN Strip(Tail(text))
    ELSE IF text[Len(text)] = " " THEN Strip(SubSeq(text, 1, Len(text) - 1))
    ELSE text

\* digits = [c for c in text if c.isdigit()]
DigitsOf(text) == SelectSeq(text, IsDigit)

on_phone_text(ud, message_text, chat_id, fails) ==
    IF ~Get(ud, UD_AWAITING_CONTACT, FALSE) THEN R(ud, <<>>, FALSE)
    ELSE
        LET text == Strip(message_text)
            digits == DigitsOf(text)
        IN  IF Len(digits) < 7 THEN R(ud, <<>>, FALSE)
            ELSE
                LET ud1 == Put(Put(ud, UD_CONTACT_RECEIVED, TRUE),
                               UD_AWAITING_CONTACT, FALSE)
                    ack == <<SEND("ack")>>
                IN  R(ud1, ack \o forward_to_manager(ud1, chat_id, fails),
                      FALSE)

cmd_help(ud, fails) ==
    R(ud, <<SEND("help")>>, SEND("help") \in fails)

----------------------------------------------------------------------------
(* Updates and dispatch (build_application) *)

\* option indices carried by the callback data "qN_<index>"; [1-4] are the
\* declared ones
OptionInputs == {2, 5}

\* callback data "start_quiz" and "qN_<index>", split at the underscore
CallbackInputs ==
    {<<"start_quiz">>} \cup ({"q1", "q2", "q3", "q4", "q5"} \X OptionInputs)

\* the patterns ^start_quiz$ and ^qN_([1-4])$
MatchesStart(data) == data = <<"start_quiz">>

\* the pattern ^qN_(.)$: any index
MatchesQuestionAnyIndex(tag, data) ==
    Len(data) = 2 /\ data[1] = tag

MatchesQuestion(tag, data) ==
    Len(data) = 2 /\ data[1] = tag /\ data[2] \in 1..4

\* int(query.data.split("_")[1])
ChoiceOf(data) == data[2]

CommandInputs == {"start", "help", "about"}

\* free texts (filters.TEXT & ~filters.COMMAND), as characters
TextInputs ==
    << <<"d", "a", ",", " ", "s", "u", "p", "e", "r", "!">>,
       <<"m", "o", "j", " ", "n", "o", "m", "e", "r", " ",
         "8", "9", "9", "9", "1", "2", "3", "4", "5", "6", "7">>,
       <<"1", "2", "3", "-", "4", "5", "6">>,
       <<" ", "1", "2", "3", "-", "4", "5", "-", "6", "7", " ">> >>

\* messages that are not commands, by what they carry
MessageInputs == {"contact", "text", "photo"}

\* values of the MANAGER_CHAT_ID environment variable
ManagerChatIdInputs == {<<>>, <<"4", "2">>}

CountLeads(o) == Len(SelectSeq(o, LAMBDA e : e = LEAD))

\* the state after a handler has run on an update; `data` is the callback data
\* of the update (none for a command or a message), `fails` are the calls it
\* made that failed
Handled(handler, arg, data, fails, r) ==
    LET completed == SelectSeq(r.tried, LAMBDA e : e \notin fails)
    IN  /\ fails \subseteq {r.tried[i] : i \in DOMAIN r.tried}
        /\ user_data' = r.ud
        /\ out' = completed
        /\ last' = [handler |-> handler, arg |-> arg, data |-> data,
                    raised |-> r.raised, io_ok |-> fails = {},
                    failed |-> fails, held |-> DOMAIN user_data]
        /\ leads' = IF handler = "cmd_start" THEN 0
                     ELSE leads + CountLeads(completed)
        /\ UNCHANGED <<MANAGER_CHAT_ID, rec, calls, sessions, log, web_vars>>

AnswersLen == Len(Get(user_data, UD_ANSWERS, <<>>))

\* the outcome of the handler registered under a name, run on the dict ud with
\* the argument of the update (the option index, or the index of the text)
Run(handler, arg, ud, fails) ==
    CASE handler = "cmd_start" -> cmd_start(ud, fails)
      [] handler = "cmd_help" -> cmd_help(ud, fails)
      [] handler = "on_start_quiz" -> on_start_quiz(ud, fails)
      [] handler = "handle_q1" -> handle_q1(ud, arg, fails)
      [] handler = "handle_q2" -> handle_q2(ud, arg, fails)
      [] handler = "handle_q3" -> handle_q3(ud, arg, fails)
      [] handler = "handle_q4" -> handle_q4(ud, arg, fails)
      [] handler = "on_contact" -> on_contact(ud, MANAGER_CHAT_ID, fails)
      [] handler = "on_phone_text" ->
            on_phone_text(ud, TextInputs[arg], MANAGER_CHAT_ID, fails)
      [] OTHER -> R(ud, <<>>, FALSE)

\* the sets of calls that can fail while a handler runs: any of the calls of
\* its run without failures r0, and the send_message an except branch makes
\* after a failed edit_message_text
FailureSets(r0) ==
    LET made == {r0.tried[i] : i \in DOMAIN r0.tried}
    IN  SUBSET (made \cup {SEND(e[2]) : e \in {c \in made : c = EDIT(c[2])}})

CmdStart ==
    \E c \in CommandInputs :
        /\ c = "start"
        /\ \E fails \in FailureSets(cmd_start(user_data, {})) :
              Handled("cmd_start", 0, <<>>, fails, cmd_start(user_data, fails))

CmdHelp ==
    \E c \in CommandInputs :
        /\ c = "help"
        /\ \E fails \in FailureSets(cmd_help(user_data, {})) :
              Handled("cmd_help", 0, <<>>, fails, cmd_help(user_data, fails))

OnStartQuiz ==
    \E data \in CallbackInputs :
        /\ MatchesStart(data)
        /\ \E fails \in FailureSets(on_start_quiz(user_data, {})) :
              Handled("on_start_quiz", 0, data, fails,
                      on_start_quiz(user_data, fails))

HandleQ1 ==
    \E data \in CallbackInputs :
        /\ MatchesQuestion("q1", data)
        /\ AnswersLen < MaxAnswers
        /\ \E fails \in FailureSets(handle_q1(user_data, ChoiceOf(data), {})) :
              Handled("handle_q1", ChoiceOf(data), data, fails,
                      handle_q1(user_data, ChoiceOf(data), fails))

HandleQ2 ==
    \E data \in CallbackInputs :
        /\ MatchesQuestion("q2", data)
        /\ AnswersLen < MaxAnswers
        /\ \E fails \in FailureSets(handle_q2(user_data, ChoiceOf(data), {})) :
              Handled("handle_q2", ChoiceOf(data), data, fails,
                      handle_q2(user_data, ChoiceOf(data), fails))

HandleQ3 ==
    \E data \in CallbackInputs :
        /\ MatchesQuestion("q3", data)
        /\ AnswersLen < MaxAnswers
        /\ \E fails \in FailureSets(handle_q3(user_data, ChoiceOf(data), {})) :
              Handled("handle_q3", ChoiceOf(data), data, fails,
                      handle_q3(user_data, ChoiceOf(data), fails))

HandleQ4 ==
    \E data \in CallbackInputs :
        /\ MatchesQuestion("q4", data)
        /\ AnswersLen < MaxAnswers
        /\ \E fails \in FailureSets(handle_q4(user_data, ChoiceOf(data), {})) :
              Handled("handle_q4", ChoiceOf(data), data, fails,
                      handle_q4(user_data, ChoiceOf(data), fails))

\* filters.CONTACT
OnContact ==
    \E kind \in MessageInputs :
        /\ kind = "contact"
        /\ \E fails \in FailureSets(on_contact(user_data, MANAGER_CHAT_ID, {})) :
              Handled("on_contact", 0, <<>>, fails,
                      on_contact(user_data, MANAGER_CHAT_ID, fails))

\* filters.TEXT & (~filters.COMMAND)
OnPhoneText ==
    \E kind \in MessageInputs, t \in DOMAIN TextInputs :
        /\ kind = "text"
        /\ \E fails \in FailureSets(on_phone_text(user_data, TextInputs[t],
                                                  MANAGER_CHAT_ID, {})) :
              Handled("on_phone_text", t, <<>>, fails,
                      on_phone_text(user_data, TextInputs[t],
                                    MANAGER_CHAT_ID, fails))

\* an update no handler matches: callback data outside the patterns, a
\* command other than /start and /help, a message that is neither a contact
\* nor a text
Unhandled ==
    \/ \E data \in CallbackInputs :
          /\ ~MatchesStart(data)
          /\ \A tag \in {"q1", "q2", "q3", "q4"} : ~MatchesQuestion(tag, data)
          /\ Handled("none", 0, data, {}, R(user_data, <<>>, FALSE))
    \/ /\ \/ \E c \in CommandInputs : c \notin {"start", "help"}
          \/ \E kind \in MessageInputs : kind \notin {"contact", "text"}
       /\ Handled("none", 0, <<>>, {}, R(user_data, <<>>, FALSE))

----------------------------------------------------------------------------
(* Specifications *)

NoRec == [answers |-> <<>>, best |-> compute_recommendation(<<>>)]

----------------------------------------------------------------------------
(* The web layer as imported (src/api/telegram.py) *)

\* Optional[str]: <<>> is None, <<s>> is the string s
Nothing == <<>>

Some(s) == <<s>>

\* `not x` for an Optional[str]
Falsy(x) == x = Nothing \/ x[1] = ""

\* values of TELEGRAM_WEBHOOK_SECRET and ADMIN_SECRET; "" when not set
SecretInputs == {"", "s3cr3t"}

\* the X-Telegram-Bot-Api-Secret-Token header of a request
HeaderInputs == {Nothing, Some(""), Some("s3cr3t"), Some("guess")}

\* the admin_secret cookie of a request
CookieInputs == {Nothing, Some(""), Some("s3cr3t"), Some("guess")}

\* the secret field of the login form
LoginInputs == {"", "s3cr3t", "guess"}

\* the text field of the broadcast form
BroadcastTextInputs == {<<" ", " ">>, <<"h", "i">>}

\* the callback data of the updates Telegram posts to the webhook
WebhookUpdateInputs == {<<"start_quiz">>, <<"q4", 2>>}

\* the telegram_id column of the users table, as list_users returns it
StoreInputs == {<<>>, <<7, 0, 9>>}

\* the webhook requests of the instance
Webhooks == {"w1", "w2"}

\* the routes behind Depends(require_admin) that only read
AdminRoutes ==
    {"/admin", "/admin/users", "/admin/stats", "/admin/migrate",
     "/admin/broadcasts"}

IdleWebhook == [pc |-> "idle", header |-> Nothing, data |-> <<>>, status |-> 0]

IdleBroadcast ==
    [pc |-> "idle", cookie |-> Nothing, ids |-> <<>>, i |-> 0, sent |-> 0,
     status |-> 0]

NoAdminRequest ==
    [route |-> "", cookie |-> Nothing, secret |-> "", status |-> 0,
     admitted |-> FALSE]

\* ptb_app = build_application(): how often initialize() and start() have
\* been called on it, and whether a start() has completed
BuiltApplication == [initialize |-> 0, start |-> 0, running |-> FALSE]

\* the module as imported: ptb_app built, nothing initialized, no request yet
WebIdle ==
    /\ _initialized = FALSE
    /\ ptb_app = BuiltApplication
    /\ webhook = [w \in Webhooks |-> IdleWebhook]
    /\ broadcast = IdleBroadcast
    /\ delivered = <<>>
    /\ admin = NoAdminRequest
    /\ jar = Nothing

----------------------------------------------------------------------------
(* Specifications of the bot *)

\* SpecUsers: the users that send updates
Users == {"A", "B"}

\* the bot before its first update
InitBot ==
    /\ user_data = EmptyDict
    /\ last = [handler |-> "init", arg |-> 0, data |-> <<>>, raised |-> FALSE,
               io_ok |-> TRUE, failed |-> {}, held |-> {}]
    /\ out = <<>>
    /\ leads = 0
    /\ MANAGER_CHAT_ID \in ManagerChatIdInputs
    /\ rec = NoRec
    /\ calls = <<>>
    /\ sessions = [u \in Users |-> EmptyDict]
    /\ log = <<>>

\* the bot on its own: the web layer stays as imported, with no secret set
\* and an empty users table
Init ==
    /\ InitBot
    /\ WebIdle
    /\ WEBHOOK_SECRET = ""
    /\ ADMIN_SECRET = ""
    /\ lifespan = "none"
    /\ users = <<>>

Next ==
    \/ CmdStart
    \/ CmdHelp
    \/ OnStartQuiz
    \/ HandleQ1
    \/ HandleQ2
    \/ HandleQ3
    \/ HandleQ4
    \/ OnContact
    \/ OnPhoneText
    \/ Unhandled

Spec == Init /\ [][Next]_vars

\* compute_recommendation alone, on every list of (question, option) pairs
Questions == {"Q1", "Q2", "Q3", "Q4"}

Choices == 1..4

Recommend ==
    \E q \in Questions, c \in Choices :
        /\ Len(rec.answers) < MaxScored
        /\ LET answers == Append(rec.answers, <<q, c>>)
           IN  rec' = [answers |-> answers,
                       best |-> compute_recommendation(answers)]
        /\ UNCHANGED <<user_data, last, out, leads, MANAGER_CHAT_ID, calls,
                       sessions, log, web_vars>>

InitRecommend == Init /\ MANAGER_CHAT_ID = <<>>

SpecRecommend == InitRecommend /\ [][Recommend]_vars

\* compute_recommendation called again and again while the session moves on:
\* the valid answers of a complete quiz, one option of 1..4 for each of Q1..Q4
ValidSequences ==
    {<<<<"Q1", a>>, <<"Q2", b>>, <<"Q3", c>>, <<"Q4", d>>>> :
        a \in Choices, b \in Choices, c \in Choices, d \in Choices}

\* a sequence called with in between the calls that are compared
OtherSequence == <<<<"Q1", 1>>, <<"Q2", 1>>, <<"Q3", 3>>, <<"Q4", 1>>>>

\* a call compute_recommendation(s), recorded with the result the session
\* holds at that time; the first call takes any valid sequence, a later one
\* the same sequence again or OtherSequence
Call ==
    \E s \in ValidSequences :
        /\ Len(calls) < MaxCalls
        /\ calls # <<>> => (s = calls[1].answers \/ s = OtherSequence)
        /\ LET best == compute_recommendation(s)
           IN  /\ rec' = [answers |-> s, best |-> best]
               /\ calls' = Append(calls,
                      [answers |-> s, best |-> best,
                       result |-> Get(user_data, UD_RESULT, "?")])
        /\ UNCHANGED <<user_data, last, out, leads, MANAGER_CHAT_ID, sessions,
                       log, web_vars>>

\* the session between two calls: a /start, or an answer to question 4 in a
\* session without a result (handle_q4 calls compute_recommendation itself),
\* every external call succeeding
StartBetweenCalls == CmdStart /\ last'.io_ok

Q4BetweenCalls == ~(UD_RESULT \in DOMAIN user_data) /\ HandleQ4 /\ last'.io_ok

InitCalls == Init /\ MANAGER_CHAT_ID = <<"4", "2">>

NextCalls ==
    \/ Call
    \/ StartBetweenCalls
    \/ Q4BetweenCalls

SpecCalls == InitCalls /\ [][NextCalls]_vars

\* several users: every update belongs to one user and its handler works on
\* context.user_data, the dict of that user

\* one dict for all users
UserDataShared(store, u) == store[CHOOSE v \in DOMAIN store : TRUE]

\* context.user_data of an update of user u
UserData(store, u) == store[u]

\* the store after the handler of an update of user u has left the dict ud
StoreUserData(store, u, ud) == [store EXCEPT ![u] = ud]

\* the callback data users send in SpecUsers, and the handler of each
UserCallbackInputs == {<<"start_quiz">>, <<"q1", 2>>, <<"q4", 2>>, <<"q4", 5>>}

HandlerOf(data) ==
    CASE MatchesStart(data) -> "on_start_quiz"
      [] MatchesQuestion("q1", data) -> "handle_q1"
      [] MatchesQuestion("q2", data) -> "handle_q2"
      [] MatchesQuestion("q3", data) -> "handle_q3"
      [] MatchesQuestion("q4", data) -> "handle_q4"
      [] OTHER -> "none"

\* user u's update is processed by a handler; of its calls query.answer may
\* fail
Processed(u, handler, arg) ==
    LET ud == UserData(sessions, u)
    IN  \E fails \in FailureSets(Run(handler, arg, ud, {})) \cap SUBSET {ANSWER} :
            /\ Len(log) < MaxUpdates
            /\ sessions' = StoreUserData(sessions, u,
                                         Run(handler, arg, ud, fails).ud)
            /\ log' = Append(log, [user |-> u, handler |-> handler,
                                   arg |-> arg, failed |-> fails])
            /\ UNCHANGED <<user_data, last, out, leads, MANAGER_CHAT_ID, rec,
                           calls, web_vars>>

UserStart ==
    \E u \in Users, c \in CommandInputs :
        c = "start" /\ Processed(u, "cmd_start", 0)

UserCallback ==
    \E u \in Users, data \in CallbackInputs :
        /\ data \in UserCallbackInputs
        /\ Processed(u, HandlerOf(data),
                     IF HandlerOf(data) \in {"on_start_quiz", "none"} THEN 0
                     ELSE ChoiceOf(data))

UserContact ==
    \E u \in Users, kind \in MessageInputs :
        kind = "contact" /\ Processed(u, "on_contact", 0)

InitUsers == Init /\ MANAGER_CHAT_ID = <<"4", "2">>

NextUsers ==
    \/ UserStart
    \/ UserCallback
    \/ UserContact

SpecUsers == InitUsers /\ [][NextUsers]_vars

----------------------------------------------------------------------------
(* The web instance (src/api/telegram.py) *)

\* the 403 of telegram_webhook raised only for a header that is present
webhook_forbidden_if_present(secret, header) ==
    secret # "" /\ ~Falsy(header) /\ header[1] # secret

\* the condition of telegram_webhook's 403
webhook_forbidden(secret, header) ==
    secret # "" /\ (Falsy(header) \/ header[1] # secret)

\* _is_admin without bool(ADMIN_SECRET)
_is_admin_any_secret(secret, cookie) == cookie = Some(secret)

_is_admin(secret, cookie) == secret # "" /\ cookie = Some(secret)

\* the startup hook; no request is served before it returns
on_startup ==
    /\ lifespan = "startup"
    /\ lifespan' = "serving"
    /\ IF ~_initialized
       THEN /\ ptb_app' = [initialize |-> ptb_app.initialize + 1,
                           start |-> ptb_app.start + 1, running |-> TRUE]
            /\ _initialized' = TRUE
       ELSE UNCHANGED <<ptb_app, _initialized>>
    /\ UNCHANGED <<WEBHOOK_SECRET, ADMIN_SECRET, webhook, broadcast, users,
                   delivered, admin, jar, bot_vars>>

\* a request is in flight
InFlight ==
    \/ \E w \in Webhooks : webhook[w].pc \notin {"idle", "done"}
    \/ broadcast.pc \notin {"idle", "done"}

\* the shutdown hook; it runs when the server has drained its requests
on_shutdown ==
    /\ lifespan = "serving"
    /\ ~InFlight
    /\ lifespan' = "stopped"
    /\ IF _initialized
       THEN /\ ptb_app' = BuiltApplication
            /\ _initialized' = FALSE
       ELSE UNCHANGED <<ptb_app, _initialized>>
    /\ UNCHANGED <<WEBHOOK_SECRET, ADMIN_SECRET, webhook, broadcast, users,
                   delivered, admin, jar, bot_vars>>

\* the instance serves requests
Serving == lifespan \in {"none", "serving"}

\* telegram_webhook up to `await request.json()`
WebhookReceive ==
    \E w \in Webhooks, header \in HeaderInputs, data \in WebhookUpdateInputs :
        /\ Serving
        /\ webhook[w].pc = "idle"
        /\ webhook' = [webhook EXCEPT ![w] =
              IF webhook_forbidden(WEBHOOK_SECRET, header)
              THEN [pc |-> "done", header |-> header, data |-> <<>>,
                    status |-> 403]
              ELSE [pc |-> "json", header |-> header, data |-> data,
                    status |-> 0]]
        /\ UNCHANGED <<_initialized, ptb_app, WEBHOOK_SECRET, ADMIN_SECRET,
                       lifespan, broadcast, users, delivered, admin, jar,
                       bot_vars>>

\* telegram_webhook from the parsed body to its next await: initialize() when
\* _initialized is false, process_update otherwise
WebhookEnsure ==
    \E w \in Webhooks :
        /\ webhook[w].pc = "json"
        /\ IF ~_initialized
           THEN /\ ptb_app' = [ptb_app EXCEPT !.initialize = @ + 1]
                /\ webhook' = [webhook EXCEPT ![w].pc = "initialize"]
           ELSE /\ webhook' = [webhook EXCEPT ![w].pc = "process"]
                /\ UNCHANGED ptb_app
        /\ UNCHANGED <<_initialized, WEBHOOK_SECRET, ADMIN_SECRET, lifespan,
                       broadcast, users, delivered, admin, jar, bot_vars>>

\* initialize() has returned; `await ptb_app.start()`
WebhookStart ==
    \E w \in Webhooks :
        /\ webhook[w].pc = "initialize"
        /\ ptb_app' = [ptb_app EXCEPT !.start = @ + 1]
        /\ webhook' = [webhook EXCEPT ![w].pc = "start"]
        /\ UNCHANGED <<_initialized, WEBHOOK_SECRET, ADMIN_SECRET, lifespan,
                       broadcast, users, delivered, admin, jar, bot_vars>>

\* start() has returned; `_initialized = True`, then process_update
WebhookStarted ==
    \E w \in Webhooks :
        /\ webhook[w].pc = "start"
        /\ ptb_app' = [ptb_app EXCEPT !.running = TRUE]
        /\ _initialized' = TRUE
        /\ webhook' = [webhook EXCEPT ![w].pc = "process"]
        /\ UNCHANGED <<WEBHOOK_SECRET, ADMIN_SECRET, lifespan, broadcast,
                       users, delivered, admin, jar, bot_vars>>

\* process_update has run the handler of the update; {"ok": True}
WebhookProcessed ==
    \E w \in Webhooks :
        /\ webhook[w].pc = "process"
        /\ LET data == webhook[w].data
               r == Run(HandlerOf(data),
                        IF MatchesStart(data) THEN 0 ELSE ChoiceOf(data),
                        user_data, {})
           IN  /\ user_data' = r.ud
               /\ out' = r.tried
        /\ webhook' = [webhook EXCEPT ![w].pc = "done", ![w].status = 200]
        /\ UNCHANGED <<_initialized, ptb_app, WEBHOOK_SECRET, ADMIN_SECRET,
                       lifespan, broadcast, users, delivered, admin, jar,
                       last, leads, MANAGER_CHAT_ID, rec, calls, sessions,
                       log>>

\* admin_broadcasts_send reads the users table with limit=100000
BroadcastLimit == 100000

\* list_users(limit): the first `limit` rows, the table taken newest first
\* (ORDER BY created_at DESC LIMIT %s)
list_users(rows, limit) ==
    IF Len(rows) <= limit THEN rows ELSE SubSeq(rows, 1, limit)

\* ids = [u.get("telegram_id") for u in users if u.get("telegram_id")]
RecipientIds(rows) == SelectSeq(rows, LAMBDA t : t # 0)

\* admin_broadcasts_send up to its first await: the admission, the text,
\* the recipients, then initialize() or the first send_message
BroadcastReceive ==
    \E cookie \in CookieInputs \cup {jar}, text \in BroadcastTextInputs,
       db_ok \in BOOLEAN :
        /\ Serving
        /\ broadcast.pc = "idle"
        /\ LET ids == RecipientIds(list_users(users, BroadcastLimit))
               ended(status) ==
                   [IdleBroadcast EXCEPT !.pc = "done", !.cookie = cookie,
                                         !.status = status]
           IN  IF ~_is_admin(ADMIN_SECRET, cookie)
               THEN broadcast' = ended(302) /\ UNCHANGED ptb_app
               ELSE IF Strip(text) = <<>>
               THEN broadcast' = ended(400) /\ UNCHANGED ptb_app
               ELSE IF ~db_ok
               THEN broadcast' = ended(500) /\ UNCHANGED ptb_app
               ELSE IF ids = <<>>
               THEN broadcast' = ended(200) /\ UNCHANGED ptb_app
               ELSE IF ~_initialized
               THEN /\ ptb_app' = [ptb_app EXCEPT !.initialize = @ + 1]
                    /\ broadcast' = [pc |-> "initialize", cookie |-> cookie,
                                     ids |-> ids, i |-> 0, sent |-> 0,
                                     status |-> 0]
               ELSE /\ broadcast' = [pc |-> "send", cookie |-> cookie,
                                     ids |-> ids, i |-> 1, sent |-> 0,
                                     status |-> 0]
                    /\ UNCHANGED ptb_app
        /\ UNCHANGED <<_initialized, WEBHOOK_SECRET, ADMIN_SECRET, lifespan,
                       webhook, users, delivered, admin, jar, bot_vars>>

\* initialize() has returned; `await ptb_app.start()`
BroadcastStart ==
    /\ broadcast.pc = "initialize"
    /\ ptb_app' = [ptb_app EXCEPT !.start = @ + 1]
    /\ broadcast' = [broadcast EXCEPT !.pc = "start"]
    /\ UNCHANGED <<_initialized, WEBHOOK_SECRET, ADMIN_SECRET, lifespan,
                   webhook, users, delivered, admin, jar, bot_vars>>

\* start() has returned; `_initialized = True`, then the first send_message
BroadcastStarted ==
    /\ broadcast.pc = "start"
    /\ ptb_app' = [ptb_app EXCEPT !.running = TRUE]
    /\ _initialized' = TRUE
    /\ broadcast' = [broadcast EXCEPT !.pc = "send", !.i = 1]
    /\ UNCHANGED <<WEBHOOK_SECRET, ADMIN_SECRET, lifespan, webhook, users,
                   delivered, admin, jar, bot_vars>>

\* one send_message of the loop has returned or raised; the next one, or the
\* response after the last
BroadcastSend ==
    \E ok \in BOOLEAN :
        /\ broadcast.pc = "send"
        /\ LET tid == broadcast.ids[broadcast.i]
               sent == IF ok THEN broadcast.sent + 1 ELSE broadcast.sent
           IN  /\ delivered' = IF ok THEN Append(delivered, tid) ELSE delivered
               /\ broadcast' =
                     IF broadcast.i < Len(broadcast.ids)
                     THEN [broadcast EXCEPT !.i = @ + 1, !.sent = sent]
                     ELSE [broadcast EXCEPT !.pc = "done", !.sent = sent,
                                            !.status = 200]
        /\ UNCHANGED <<_initialized, ptb_app, WEBHOOK_SECRET, ADMIN_SECRET,
                       lifespan, webhook, users, admin, jar, bot_vars>>

\* admin_home, admin_users, admin_stats, admin_migrate and
\* admin_broadcasts_page: require_admin, then the page
AdminPage ==
    \E route \in AdminRoutes, cookie \in CookieInputs \cup {jar} :
        /\ Serving
        /\ admin' = [NoAdminRequest EXCEPT
                        !.route = route, !.cookie = cookie,
                        !.status = IF _is_admin(ADMIN_SECRET, cookie)
                                   THEN 200 ELSE 302,
                        !.admitted = _is_admin(ADMIN_SECRET, cookie)]
        /\ UNCHANGED <<_initialized, ptb_app, WEBHOOK_SECRET, ADMIN_SECRET,
                       lifespan, webhook, broadcast, users, delivered, jar,
                       bot_vars>>

\* admin_login: the cookie is set on the redirect after the right secret
admin_login ==
    \E secret \in LoginInputs :
        /\ Serving
        /\ LET status == IF ADMIN_SECRET = "" THEN 500
                         ELSE IF secret # ADMIN_SECRET THEN 403
                         ELSE 302
           IN  /\ admin' = [NoAdminRequest EXCEPT
                               !.route = "/admin/login", !.secret = secret,
                               !.status = status]
               /\ jar' = IF status = 302 THEN Some(ADMIN_SECRET) ELSE jar
        /\ UNCHANGED <<_initialized, ptb_app, WEBHOOK_SECRET, ADMIN_SECRET,
                       lifespan, webhook, broadcast, users, delivered,
                       bot_vars>>

\* admin_logout: the cookie is deleted
admin_logout ==
    /\ Serving
    /\ admin' = [NoAdminRequest EXCEPT !.route = "/admin/logout",
                                       !.status = 302]
    /\ jar' = Nothing
    /\ UNCHANGED <<_initialized, ptb_app, WEBHOOK_SECRET, ADMIN_SECRET,
                   lifespan, webhook, broadcast, users, delivered, bot_vars>>

\* the instance with its webhook and broadcast requests; the server runs the
\* lifespan hooks ("startup") or, as a serverless function, never does
\* ("none")
InitInstance ==
    /\ InitBot
    /\ MANAGER_CHAT_ID = <<>>
    /\ WebIdle
    /\ WEBHOOK_SECRET \in SecretInputs
    /\ ADMIN_SECRET = "s3cr3t"
    /\ lifespan \in {"none", "startup"}
    /\ users = <<7, 0, 9>>

NextInstance ==
    \/ on_startup
    \/ on_shutdown
    \/ WebhookReceive
    \/ WebhookEnsure
    \/ WebhookStart
    \/ WebhookStarted
    \/ WebhookProcessed
    \/ BroadcastReceive
    \/ BroadcastStart
    \/ BroadcastStarted
    \/ BroadcastSend

SpecInstance == InitInstance /\ [][NextInstance]_vars

\* the admin area: the pages, the login and the broadcast
InitAdmin ==
    /\ InitBot
    /\ MANAGER_CHAT_ID = <<>>
    /\ WebIdle
    /\ WEBHOOK_SECRET = ""
    /\ ADMIN_SECRET \in SecretInputs
    /\ lifespan = "none"
    /\ users \in StoreInputs

NextAdmin ==
    \/ AdminPage
    \/ admin_login
    \/ admin_logout
    \/ BroadcastReceive
    \/ BroadcastStart
    \/ BroadcastStarted
    \/ BroadcastSend

SpecAdmin == InitAdmin /\ [][NextAdmin]_vars

----------------------------------------------------------------------------
(* The session as the specification reads it *)

Answers == Get(user_data, UD_ANSWERS, <<>>)

ResultSet == UD_RESULT \in DOMAIN user_data

Awaiting == Get(user_data, UD_AWAITING_CONTACT, FALSE)

ContactReceived == Get(user_data, UD_CONTACT_RECEIVED, FALSE)

\* the session has been through the whole quiz: the answers to Q1..Q4 in
\* order and a result, where the specification has it in AWAITING_CONTACT or
\* DONE
QuizCompleted ==
    /\ Len(Answers) = 4
    /\ \A i \in 1..4 : Answers[i][1] = <<"Q1", "Q2", "Q3", "Q4">>[i]
    /\ ResultSet

\* a manager chat is configured
ManagerConfigured == MANAGER_CHAT_ID # <<>>

\* the session is waiting for the answer to question n
InQuestion(n) ==
    /\ UD_ANSWERS \in DOMAIN user_data
    /\ Len(Answers) = n - 1
    /\ ~ResultSet

\* a message went out to the user or to the manager
Emitted(o) ==
    \E i \in DOMAIN o :
        o[i][1] \in {"edit_message_text", "send_message", "bot.send_message"}

PhoneLike(t) == Len(DigitsOf(Strip(TextInputs[t]))) >= 7

----------------------------------------------------------------------------
(* Claims *)

C2_Q4ReachesAwaitingContact ==
    (last.handler = "handle_q4" /\ last.io_ok /\ QuizCompleted) =>
        /\ Awaiting
        /\ \E i, j \in DOMAIN out :
              i < j /\ out[i] = SEND("result") /\ out[j] = SEND("contact_request")

\* C3: an option-selected event for question m that arrives while the session
\* is not waiting for the answer to question m leaves user_data unchanged and
\* emits no message.
C3_UnexpectedOptionIgnored ==
    [][\A m \in 1..4 :
          (last'.handler = <<"handle_q1", "handle_q2", "handle_q3", "handle_q4">>[m]
            /\ ~InQuestion(m))
          => (user_data' = user_data /\ ~Emitted(out'))]_vars

\* C4: answers never has more than 4 entries.
C4_AtMostFourAnswers == Len(Answers) <= 4

\* C5: result is set if and only if answers has exactly 4 entries.
C5_ResultIffFourAnswers == ResultSet <=> Len(Answers) = 4

\* C6: once result is set, no event other than a restart changes it.
C6_ResultNeverChanged ==
    [][(ResultSet /\ last'.handler \notin {"cmd_start", "on_start_quiz"})
         => (ResultSet' /\ user_data'[UD_RESULT] = user_data[UD_RESULT])]_vars

\* C7: a contact-shared event processed while awaiting_contact is false
\* changes no session field, completes no call (no acknowledgment, no lead,
\* no phone update) and hands off no lead.
C7_ContactIgnoredUnlessAwaiting ==
    [][(last'.handler = "on_contact" /\ ~Awaiting)
         => (user_data' = user_data /\ out' = <<>> /\ leads' = leads
             /\ ~last'.raised)]_vars

\* C7 witness: a contact-shared event was processed and ignored in a session
\* that has a result but is not awaiting a contact
C7_Witness ==
    /\ last.handler = "on_contact"
    /\ ResultSet
    /\ ~Awaiting
    /\ out = <<>>
    /\ leads = 0

----------------------------------------------------------------------------
(* The reference algorithm of the recommendation engine *)

\* the scoring rule table: the weight deltas of each (question, option)
WeightTable ==
    [q \in Questions |-> [c \in Choices |->
        LET w(cloud, gocci, flous, jungle) ==
                [CLOUD |-> cloud, GOCCI |-> gocci, FLOUS |-> flous,
                 JUNGLE |-> jungle]
        IN  CASE q = "Q1" -> <<w(1,0,0,1), w(0,1,0,0), w(0,0,2,0), w(0,0,0,2)>>[c]
              [] q = "Q2" -> <<w(2,0,0,1), w(0,2,1,0), w(1,0,2,0), w(1,1,0,1)>>[c]
              [] q = "Q3" -> <<w(1,2,0,0), w(0,0,2,0), w(2,0,1,0), w(1,0,0,2)>>[c]
              [] q = "Q4" -> <<w(3,0,0,0), w(0,2,1,0), w(1,2,0,0), w(1,0,2,0)>>[c]]]

\* every accumulator starts at 0 and takes the deltas of each pair in turn
RECURSIVE ReferenceScores(_)
ReferenceScores(answers) ==
    IF answers = <<>> THEN [m \in DOMAIN ZeroScore |-> 0]
    ELSE LET before == ReferenceScores(SubSeq(answers, 1, Len(answers) - 1))
             pair == answers[Len(answers)]
         IN  [m \in DOMAIN before |-> before[m] + WeightTable[pair[1]][pair[2]][m]]

\* the highest score; among equals the item declared first
ReferenceRecommend(answers) ==
    LET score == ReferenceScores(answers)
        top == {i \in DOMAIN MODELS :
                    \A j \in DOMAIN MODELS : score[MODELS[j]] <= score[MODELS[i]]}
    IN  MODELS[CHOOSE i \in top : \A j \in top : i <= j]

\* the pairs of a sequence that no later pair with the same question id follows
LastPerQuestion(answers) ==
    SelectSeq([i \in DOMAIN answers |-> <<answers[i], i>>],
              LAMBDA e : \A j \in DOMAIN answers :
                            answers[j][1] = e[1][1] => j <= e[2])

RECURSIVE Firsts(_)
Firsts(pairs) ==
    IF pairs = <<>> THEN <<>> ELSE <<Head(pairs)[1]>> \o Firsts(Tail(pairs))

\* C10 as claimed: compute_recommendation returns what the reference
\* algorithm chooses when every pair of the sequence is scored, pairs with a
\* repeated question id included.
C10_EveryPairScored == rec.best = ReferenceRecommend(rec.answers)

\* C10 as amended: compute_recommendation returns what the reference algorithm
\* chooses when, of the pairs with the same question id, only the last one is
\* scored.
C10_LastPairPerQuestionScored ==
    rec.best = ReferenceRecommend(Firsts(LastPerQuestion(rec.answers)))

\* C10 witness: a sequence that answers question 4 twice, scored by the second
\* answer alone (both answers together would make CLOUD the best)
C10_Witness ==
    /\ rec.answers = <<<<"Q4", 1>>, <<"Q4", 2>>>>
    /\ rec.best = "GOCCI"
    /\ ReferenceRecommend(rec.answers) = "CLOUD"

----------------------------------------------------------------------------
(* The tie-break of the recommendation engine *)

\* the score dict compute_recommendation has accumulated for the answers
Accumulated(answers) == ScoreOf(AnswerMap(answers))

\* the declaration index of a catalog item
IndexOf(m) == CHOOSE i \in DOMAIN MODELS : MODELS[i] = m

\* the catalog items that share the maximum of a score dict
Top(score) == {m \in DOMAIN score : \A n \in DOMAIN score : score[n] <= score[m]}

\* C11: the item compute_recommendation returns has the maximum accumulated
\* score, and of the items sharing that maximum it is the one declared first
\* in the order CLOUD, GOCCI, FLOUS, JUNGLE.
C11_FirstDeclaredWinsTies ==
    LET top == Top(Accumulated(rec.answers))
    IN  /\ rec.best \in top
        /\ \A m \in top : IndexOf(rec.best) <= IndexOf(m)

\* C11 witness: GOCCI and FLOUS share the maximum score 2 (CLOUD has 1), and
\* GOCCI, declared before FLOUS, is returned
C11_Witness ==
    /\ rec.answers = <<<<"Q1", 3>>, <<"Q3", 1>>>>
    /\ Top(Accumulated(rec.answers)) = {"GOCCI", "FLOUS"}
    /\ rec.best = "GOCCI"

----------------------------------------------------------------------------
(* Scenarios of the recommendation engine *)

Scenario == <<<<"Q1", 1>>, <<"Q2", 1>>, <<"Q3", 3>>, <<"Q4", 1>>>>

\* C13: the answers [(Q1,1),(Q2,1),(Q3,3),(Q4,1)] yield CLOUD; the four
\* answers give CLOUD 1, 2, 2 and 3, its score is 8 and every other score is
\* lower.
C13_ScenarioYieldsCloud ==
    rec.answers = Scenario =>
        /\ rec.best = "CLOUD"
        /\ ScoreQ1(ZeroScore, 1)["CLOUD"] = 1
        /\ ScoreQ2(ZeroScore, 1)["CLOUD"] = 2
        /\ ScoreQ3(ZeroScore, 3)["CLOUD"] = 2
        /\ ScoreQ4(ZeroScore, 1)["CLOUD"] = 3
        /\ Accumulated(rec.answers)["CLOUD"] = 8
        /\ \A m \in DOMAIN ZeroScore \ {"CLOUD"} :
              Accumulated(rec.answers)[m] < 8

\* C13 witness: the scenario has been scored
C13_Witness ==
    /\ rec.answers = Scenario
    /\ Accumulated(rec.answers) =
          [m \in DOMAIN ZeroScore |->
              CASE m = "CLOUD" -> 8 [] m = "GOCCI" -> 0
                [] m = "FLOUS" -> 1 [] m = "JUNGLE" -> 2]

\* the catalog items
Catalog == {MODELS[i] : i \in DOMAIN MODELS}

\* C14 as claimed: for fewer than 4 pairs compute_recommendation returns a
\* catalog item, namely the reference choice over scores that hold the deltas
\* of every pair given; for no pairs every score is 0 and CLOUD is returned.
C14_PartialEveryPairScored ==
    Len(rec.answers) < 4 =>
        /\ rec.best \in Catalog
        /\ Accumulated(rec.answers) = ReferenceScores(rec.answers)
        /\ rec.best = ReferenceRecommend(rec.answers)
        /\ rec.answers = <<>> =>
              (Accumulated(rec.answers) = ZeroScore /\ rec.best = "CLOUD")

\* C14 as amended: the same, where of the given pairs with the same question
\* id only the last one is scored.
C14_PartialLastPairScored ==
    Len(rec.answers) < 4 =>
        LET scored == Firsts(LastPerQuestion(rec.answers))
        IN  /\ rec.best \in Catalog
            /\ Accumulated(rec.answers) = ReferenceScores(scored)
            /\ rec.best = ReferenceRecommend(scored)
            /\ rec.answers = <<>> =>
                  (Accumulated(rec.answers) = ZeroScore /\ rec.best = "CLOUD")

\* C14 witness: two answers only, to questions 2 and 4, scored to FLOUS = 3
C14_Witness ==
    /\ rec.answers = <<<<"Q2", 2>>, <<"Q4", 4>>>>
    /\ Accumulated(rec.answers)["FLOUS"] = 3
    /\ rec.best = "FLOUS"

----------------------------------------------------------------------------
(* Determinism of the recommendation engine *)

\* C12: every call of compute_recommendation with a valid 4-answer sequence
\* returns a catalog item, and all the calls made with the same sequence
\* return the same item, whatever the session holds at the time of the call
\* and whatever was called in between.
C12_DeterministicAndTotal ==
    \A i \in DOMAIN calls :
        /\ calls[i].answers \in ValidSequences
        /\ calls[i].best \in Catalog
        /\ calls[i].answers = calls[1].answers => calls[i].best = calls[1].best

\* C12 witness: two calls with the same sequence have returned JUNGLE, the
\* first in a session without a result, the second in a session that holds
\* the result GOCCI and after a call with another sequence
C12_Witness ==
    /\ Len(calls) = 3
    /\ calls[1].result = "?"
    /\ calls[2].answers # calls[1].answers
    /\ calls[3].answers = calls[1].answers
    /\ calls[3].result = "GOCCI"
    /\ calls[3].best = "JUNGLE"

----------------------------------------------------------------------------
(* Failures of the collaborators *)

\* C15: whatever calls fail while a handler processes an update, the session
\* it leaves is the one it leaves when every call succeeds; and when the send
\* of the result message fails in handle_q4, the session still ends awaiting
\* the contact.
C15_FailureLeavesSameSession ==
    [][/\ user_data' = Run(last'.handler, last'.arg, user_data, {}).ud
       /\ (last'.handler = "handle_q4" /\ SEND("result") \in last'.failed)
             => Awaiting']_vars

----------------------------------------------------------------------------
(* Restart *)

\* the sessions the specification calls AWAITING_CONTACT and DONE: a complete
\* quiz with its result, the contact awaited or received
AwaitingSession ==
    Put(Put(Put(Put(EmptyDict, UD_ANSWERS, Scenario), UD_RESULT, "CLOUD"),
            UD_AWAITING_CONTACT, TRUE), UD_CONTACT_RECEIVED, FALSE)

DoneSession ==
    Put(Put(AwaitingSession, UD_CONTACT_RECEIVED, TRUE),
        UD_AWAITING_CONTACT, FALSE)

\* C16: a /start leaves the session at its zero value (no answers, no result,
\* awaiting_contact and contact_received false), whatever the session held
\* and whichever of its calls fail; cmd_start does the same to a session in
\* AWAITING_CONTACT or DONE.
C16_StartResetsSession ==
    [][last'.handler = "cmd_start" =>
          /\ user_data' = EmptyDict
          /\ Answers' = <<>> /\ ~ResultSet' /\ ~Awaiting' /\ ~ContactReceived'
          /\ \A ud \in {AwaitingSession, DoneSession} :
                cmd_start(ud, last'.failed).ud = EmptyDict]_vars

\* C16 witness: a /start has been processed in a session that held answers
\* and a result, and has left it empty
C16_Witness ==
    /\ last.handler = "cmd_start"
    /\ last.held = {UD_ANSWERS, UD_RESULT}
    /\ user_data = EmptyDict
    /\ ~Awaiting /\ ~ContactReceived

----------------------------------------------------------------------------
(* The contact flags *)

\* the handlers that assign the two flags (handle_q4 through
\* send_contact_request)
FlagWriters == {"handle_q4", "on_contact", "on_phone_text"}

BothFlags(ud) ==
    Get(ud, UD_AWAITING_CONTACT, FALSE) /\ Get(ud, UD_CONTACT_RECEIVED, FALSE)

\* C17: awaiting_contact and contact_received are never both true: not in a
\* reachable session, and not in the session a handler that assigns them
\* leaves when it runs on a session in AWAITING_CONTACT or DONE (with option 1
\* or 2, or with the first text, which is not phone-like, or the second,
\* which is).
C17_NeverAwaitingAndReceived ==
    /\ ~BothFlags(user_data)
    /\ \A ud \in {AwaitingSession, DoneSession} :
          \A h \in FlagWriters, arg \in {1, 2} :
              ~BothFlags(Run(h, arg, ud, {}).ud)

\* C17 witness: a contact has been shared after a complete quiz and neither
\* flag is true; on a session in AWAITING_CONTACT on_contact swaps the flags
C17_Witness ==
    /\ last.handler = "on_contact"
    /\ QuizCompleted
    /\ ~Awaiting /\ ~ContactReceived
    /\ on_contact(AwaitingSession, MANAGER_CHAT_ID, {}).ud = DoneSession

----------------------------------------------------------------------------
(* Undeclared options *)

\* the update is an option-selected event for one of the four questions whose
\* option index is not among the declared 1..4
UndeclaredOption(data) ==
    /\ Len(data) = 2
    /\ data[1] \in {"q1", "q2", "q3", "q4"}
    /\ data[2] \notin 1..4

\* C19: an option-selected event with an undeclared option index runs no
\* handler, leaves the session as it is and completes no call.
C19_UndeclaredOptionRejected ==
    [][UndeclaredOption(last'.data) =>
          /\ last'.handler = "none"
          /\ user_data' = user_data
          /\ out' = <<>>
          /\ leads' = leads]_vars

\* C19 witness: option 5 of question 2 has arrived while the session waits for
\* the answer to question 2, and was dropped
C19_Witness ==
    /\ last.data = <<"q2", 5>>
    /\ last.handler = "none"
    /\ InQuestion(2)
    /\ Answers = <<<<"Q1", 2>>>>
    /\ out = <<>>

----------------------------------------------------------------------------
(* Phone-like text and shared contact *)

\* C20: accepting a phone-like text has the effect of accepting a shared
\* contact. Stated on a session that has completed the quiz, which the
\* specification has awaiting the contact: after a phone-like text is
\* processed with every call succeeding, contact_received is true and
\* awaiting_contact false, the acknowledgment has been sent, one lead has been
\* handed to the manager and update_user_phone has been called.
C20_PhoneTextSameAsContact ==
    (last.handler = "on_phone_text" /\ PhoneLike(last.arg) /\ last.io_ok
        /\ QuizCompleted /\ ManagerConfigured)
    => /\ ContactReceived /\ ~Awaiting
       /\ \E i \in DOMAIN out : out[i] = SEND("ack")
       /\ CountLeads(out) = 1
       /\ \E i \in DOMAIN out : out[i] = DB("update_user_phone")

----------------------------------------------------------------------------
(* Independence of the sessions *)

\* the updates of user u among the processed ones, in order
OwnUpdates(u) == SelectSeq(log, LAMBDA e : e.user = u)

\* the session a user's own updates give, one after the other, from ud on
RECURSIVE Replay(_, _)
Replay(updates, ud) ==
    IF updates = <<>> THEN ud
    ELSE Replay(Tail(updates),
                Run(Head(updates).handler, Head(updates).arg, ud,
                    Head(updates).failed).ud)

\* C18: under every interleaving of the users' updates the session of each
\* user is what that user's own updates give from an empty session, and a
\* step that processes an update of one user leaves the session of every
\* other user unchanged.
C18_SessionsIndependent ==
    /\ [](\A u \in Users : sessions[u] = Replay(OwnUpdates(u), EmptyDict))
    /\ [][\A u \in Users :
             (log' # log /\ log'[Len(log')].user # u)
                => sessions'[u] = sessions[u]]_vars

\* C18 witness: updates of A, B and A again have been processed; A holds two
\* answers and a result, B its one answer
C18_Witness ==
    /\ Len(log) = 3
    /\ log[1].user = "A" /\ log[2].user = "B" /\ log[3].user = "A"
    /\ sessions["A"] = [answers |-> <<<<"Q1", 2>>, <<"Q4", 2>>>>,
                        result |-> "GOCCI"]
    /\ sessions["B"] = [answers |-> <<<<"Q1", 2>>>>]

----------------------------------------------------------------------------
(* The start event of the quiz *)

\* C22: after on_start_quiz has processed the start_quiz event (its
\* query.answer succeeding), in any state, answers is empty, result is unset
\* and awaiting_contact and contact_received are both false.
C22_StartQuizClearsSession ==
    (last.handler = "on_start_quiz" /\ ~last.raised) =>
        (Answers = <<>> /\ ~ResultSet /\ ~Awaiting /\ ~ContactReceived)

----------------------------------------------------------------------------
(* The order of the answers *)

\* C23: in every reachable state the i-th entry of answers has question id
\* Qi, so no question id occurs twice and a complete run holds Q1, Q2, Q3, Q4
\* in that order.
C23_AnswersInQuestionOrder ==
    /\ Len(Answers) <= 4
    /\ \A i \in DOMAIN Answers :
          Answers[i][1] = <<"Q1", "Q2", "Q3", "Q4">>[i]

----------------------------------------------------------------------------
(* Failures of the store *)

\* the store calls made while a contact is processed
ContactStoreCalls ==
    {DB("get_user_promo_codes"), DB("update_user_phone"),
     DB("touch_user_active")}

\* the calls of r that completed when those of fails failed
Completed(r, fails) ==
    {r.tried[i] : i \in DOMAIN r.tried} \ fails

\* C24: with a manager chat id configured, on_contact run on a session that
\* awaits the contact sends the Lead Record to the manager whichever of the
\* store calls of that event fail; and a handle_q4 whose add_submission failed
\* (and nothing else) has sent the result message and the contact request.
C24_StoreFailuresKeepLead ==
    /\ ManagerConfigured =>
          \A fails \in SUBSET ContactStoreCalls :
              LEAD \in Completed(on_contact(AwaitingSession, MANAGER_CHAT_ID,
                                            fails), fails)
    /\ (last.handler = "handle_q4" /\ last.failed = {DB("add_submission")})
          => \E i, j \in DOMAIN out :
                i < j /\ out[i] = SEND("result")
                      /\ out[j] = SEND("contact_request")

----------------------------------------------------------------------------
(* The acknowledgment and the lead handoff *)

\* position of the first entry of o that is call e, 0 when there is none
FirstAt(o, e) ==
    IF \E i \in DOMAIN o : o[i] = e
    THEN CHOOSE i \in DOMAIN o : o[i] = e /\ \A j \in 1..(i - 1) : o[j] # e
    ELSE 0

\* the update was a contact: a shared contact or a phone-like text
ContactEvent ==
    \/ last.handler = "on_contact"
    \/ last.handler = "on_phone_text" /\ PhoneLike(last.arg)

C25_OnAwaitingSession ==
    \A h \in {"on_contact", "on_phone_text"} :
        \A fails \in SUBSET ({SEND("ack"), LEAD} \union ContactStoreCalls) :
            LET r == Run(h, 2, AwaitingSession, fails)
            IN  /\ ~r.raised
                /\ Get(r.ud, UD_CONTACT_RECEIVED, FALSE)
                /\ r.tried[1] = SEND("ack")

----------------------------------------------------------------------------
(* The result and the answers it was computed from *)

\* C27: whenever result is set in a session it is the recommendation for the
\* session's current answers.
C27_ResultMatchesAnswers ==
    ResultSet => user_data[UD_RESULT] = compute_recommendation(Answers)

----------------------------------------------------------------------------
(* Submissions *)

\* add_submission completed while the update in o was processed
Submitted(o) == \E i \in DOMAIN o : o[i] = DB("add_submission")

\* the submission is made with the 4-entry answers of a run
C28_SubmissionOfFourAnswers == Submitted(out) => Len(Answers) = 4

\* a question-4 event that directly follows one that stored a submission
\* (no start event between them) stores none
C28_RepeatedQ4StoresNothing ==
    (last.handler = "handle_q4" /\ Submitted(out)
        /\ last'.handler = "handle_q4") => ~Submitted(out')

\* C28: add_submission is called only with a 4-entry answers sequence, and at
\* most once between two start events: a repeated or redelivered question-4
\* event does not store a second submission.
C28_OneSubmissionPerRun ==
    /\ []C28_SubmissionOfFourAnswers
    /\ [][C28_RepeatedQ4StoresNothing]_vars

----------------------------------------------------------------------------
(* The scoring rule table *)

\* the score dict compute_recommendation builds for answers
ScoresOf(answers) == ScoreOf(AnswerMap(answers))

\* C29: every declared pair (question, option) of the answers has a rule (on
\* its own it raises at least one score), every delta a rule adds is a
\* non-negative integer, so all four scores of the answers are >= 0, and the
\* scoring ends with a catalog item.
C29_RulesCompleteNonNegative ==
    /\ \A i \in DOMAIN rec.answers :
          LET delta == ScoresOf(<<rec.answers[i]>>)
          IN  /\ delta # ZeroScore
              /\ \A m \in DOMAIN delta : delta[m] \in Nat
    /\ \A m \in DOMAIN ZeroScore : ScoresOf(rec.answers)[m] \in Nat
    /\ rec.best \in Catalog

\* C29 witness: option 4 of every question has been scored: JUNGLE leads
\* with 5 points and no score is below 0
C29_Witness ==
    /\ rec.answers = <<<<"Q1", 4>>, <<"Q2", 4>>, <<"Q3", 4>>, <<"Q4", 4>>>>
    /\ ScoresOf(rec.answers)
          = [CLOUD |-> 3, GOCCI |-> 1, FLOUS |-> 2, JUNGLE |-> 5]
    /\ rec.best = "JUNGLE"

----------------------------------------------------------------------------
(* Initialization of the bot application *)

\* C26: under any interleaving of the startup hook, the webhook requests and
\* the broadcast request, initialize() and start() are executed at most once
\* before a shutdown, and process_update runs only after a start() has
\* completed.
C26_InitializedOnce ==
    /\ ptb_app.initialize <= 1
    /\ ptb_app.start <= 1
    /\ \A w \in Webhooks : webhook[w].pc = "process" => ptb_app.running

----------------------------------------------------------------------------
(* The secret of the webhook *)

\* the request has been received and answered with 403
Rejected(w) == webhook[w].status = 403

\* C30: a received webhook request is rejected with 403 exactly when
\* WEBHOOK_SECRET is non-empty and the secret-token header is missing or is
\* not WEBHOOK_SECRET (so with an empty WEBHOOK_SECRET none is); a rejected
\* request ends there, its body never parsed; and the step that rejects it
\* changes no session, emits no message and leaves the application as it was.
C30_WebhookSecretEnforced ==
    /\ [](\A w \in Webhooks :
            /\ webhook[w].pc # "idle" =>
                  (Rejected(w) <=>
                      /\ WEBHOOK_SECRET # ""
                      /\ webhook[w].header # Some(WEBHOOK_SECRET))
            /\ Rejected(w) => webhook[w].pc = "done" /\ webhook[w].data = <<>>)
    /\ [][\A w \in Webhooks :
            /\ (Rejected(w)' /\ ~Rejected(w)) =>
                    UNCHANGED <<user_data, out, sessions, delivered, ptb_app,
                                _initialized>>
            /\ Rejected(w) => webhook'[w] = webhook[w]]_vars

\* C30 witness: with the secret configured, one request with a wrong header
\* was rejected and one with the right header was processed, its update
\* (q4_2) having reached the session
C30_Witness ==
    /\ WEBHOOK_SECRET = "s3cr3t"
    /\ webhook["w1"] = [pc |-> "done", header |-> Some("guess"),
                        data |-> <<>>, status |-> 403]
    /\ webhook["w2"].status = 200
    /\ webhook["w2"].header = Some("s3cr3t")
    /\ user_data = [answers |-> <<<<"Q4", 2>>>>, result |-> "GOCCI"]

----------------------------------------------------------------------------
(* The admin area *)

\* the cookie is the configured, non-empty ADMIN_SECRET
AdminCookie(cookie) == ADMIN_SECRET # "" /\ cookie = Some(ADMIN_SECRET)

\* C21: an admin page is served, and the broadcast goes past its admission and
\* sends messages, only for a request whose admin_secret cookie is the
\* non-empty ADMIN_SECRET; with an empty ADMIN_SECRET nothing is admitted and
\* no cookie is ever set; and the cookie the browser holds is set only by a
\* login whose submitted secret equals ADMIN_SECRET.
C21_AdminPasswordProtected ==
    /\ [](/\ (admin.admitted \/ (admin.route \in AdminRoutes
                                    /\ admin.status # 302))
                => AdminCookie(admin.cookie)
          /\ (broadcast.pc # "idle" /\ broadcast.status # 302)
                => AdminCookie(broadcast.cookie)
          /\ delivered # <<>> => AdminCookie(broadcast.cookie)
          /\ jar # Nothing => AdminCookie(jar)
          /\ ADMIN_SECRET = "" =>
                /\ ~admin.admitted
                /\ broadcast.pc \in {"idle", "done"}
                /\ broadcast.status \in {0, 302}
                /\ delivered = <<>>)
    /\ [][(jar' # jar /\ jar' # Nothing) =>
              /\ admin'.route = "/admin/login"
              /\ admin'.status = 302
              /\ admin'.secret = ADMIN_SECRET
              /\ ADMIN_SECRET # ""]_vars

\* C21 witness: after a login with the right secret the users page was served
\* for the cookie the browser holds, and an admitted broadcast has sent its
\* text to both recipients
C21_Witness ==
    /\ ADMIN_SECRET = "s3cr3t"
    /\ jar = Some("s3cr3t")
    /\ admin = [route |-> "/admin/users", cookie |-> jar, secret |-> "",
                status |-> 200, admitted |-> TRUE]
    /\ broadcast.pc = "done" /\ broadcast.status = 200
    /\ broadcast.cookie = jar
    /\ delivered = <<7, 9>>

----------------------------------------------------------------------------
(* The broadcast *)

\* a users table with one row more than the broadcast reads
LargeTable == [n \in 1..(BroadcastLimit + 1) |-> n]

\* the broadcast got past its checks and has recipients
Sending == broadcast.pc \in {"initialize", "start", "send"}

\* the broadcast of a non-empty text to a non-empty list has ended
Sent == broadcast.pc = "done" /\ broadcast.status = 200 /\ broadcast.i > 0

\* the send loop: the recipients are the rows of the table that hold a
\* telegram id, each is attempted once and in order, a failed send is skipped
\* and the loop goes on, and the reported count is the number of sends that
\* succeeded
C31_LoopDelivers ==
    /\ (Sending \/ Sent) =>
          /\ broadcast.ids = RecipientIds(users)
          /\ broadcast.sent = Len(delivered)
          /\ broadcast.sent <= broadcast.i
          /\ broadcast.i <= Len(broadcast.ids)
          /\ \E kept \in SUBSET (1..broadcast.i) :
                /\ Cardinality(kept) = Len(delivered)
                /\ \A k \in 1..Len(delivered) :
                      /\ delivered[k] \in {broadcast.ids[j] : j \in kept}
                      /\ \A l \in 1..Len(delivered) :
                            delivered[k] = delivered[l] => k = l
    /\ Sent => broadcast.i = Len(broadcast.ids)
    /\ broadcast.status \in {302, 400, 500} => delivered = <<>>

\* the event loop resumes a broadcast whose await has completed, and every
\* await of it completes: a send_message returns or raises (a timeout raises)
SpecAdminFair ==
    /\ SpecAdmin
    /\ WF_vars(BroadcastStart)
    /\ WF_vars(BroadcastStarted)
    /\ WF_vars(BroadcastSend)

\* a broadcast request that was received ends with a response
C31_Terminates == (broadcast.pc # "idle") ~> (broadcast.pc = "done")

\* the broadcast reads every row of every table
C31_EveryRowRead ==
    \A rows \in StoreInputs \cup {LargeTable} :
        RecipientIds(list_users(rows, BroadcastLimit)) = RecipientIds(rows)

\* C31: a broadcast attempts delivery to every stored user with a telegram
\* id (whatever the size of the table) exactly once; a failed send is skipped
\* and the remaining sends go on; the reported count is the number of
\* successful sends, between 0 and the number of recipients; an empty or
\* whitespace-only text sends nothing.
C31_BroadcastReachesEveryUser ==
    /\ C31_LoopDelivers
    /\ C31_EveryRowRead

====
